---- MODULE Spec2Model ----
(***************************************************************************)
(* The progress-tracking store of the fsync UI client                      *)
(* (createProgressesStore, lib/progress.ts): a Svelte-style store that     *)
(* polls the daemon for the in-flight operations below a root path.        *)
(*                                                                         *)
(* One store instance is modelled.  The callers of its four methods, the   *)
(* 200 ms timer and the daemon answering the progress queries are the      *)
(* environment: they may act in any order.  An asynchronous function is    *)
(* split at its await: issuing the query is one step, applying the answer  *)
(* is another, and anything may happen in between.                         *)
(***************************************************************************)
EXTENDS Integers, Sequences, FiniteSets, TLC

\* ---------------------------------------------------------------- bounds
MaxCb == 2          \* completion callbacks handed to add over a run
MaxInFlight == 1    \* progress queries awaiting their answer at one time
MaxTimers == 2      \* timer handles the runtime can hand out at one time

\* ------------------------------------------------------ small input sets
Paths == {"/a", "/b"}
Vals == {1, 2}                  \* two distinguishable Progress values
Listeners == {"l1", "l2"}
NoPath == "none"
NoListener == "none"
None == 0                       \* undefined (no timer handle, no callback)

CbIds == 1..MaxCb
Records == [path : Paths, progress : Vals]

\* The order in which the daemon lists the paths it reports.
Rank(p) == IF p = "/a" THEN 1 ELSE 2

\* types.PathProgress[] as the daemon reports it: one record per path.
Results ==
  {s \in UNION {[1..n -> Records] : n \in 0..Cardinality(Paths)} :
     \A i, j \in DOMAIN s : i < j => Rank(s[i].path) < Rank(s[j].path)}

PathsOf(progs) == {progs[i].path : i \in DOMAIN progs}

RemoveAt(s, i) == [j \in 1..(Len(s) - 1) |-> IF j < i THEN s[j] ELSE s[j + 1]]

\* ----------------------------------------------------------------- state
VARIABLES
  globDoneCb,   \* TRUE iff a store-wide callback was given to the constructor
  subscribers,  \* the Set<Subscriber>
  progresses,   \* the PathProgress[] the store holds
  interval,     \* the timer handle, or None
  doneCb,       \* Map<string, Cb>: path -> callback id, None when absent
  timers,       \* handles of the setInterval timers that are alive
  pending,      \* daemonProgresses queries in flight, in issue order
  nextCb,       \* callbacks handed to add so far
  fired,        \* callback id -> how often it has been invoked
  delivered,    \* subscribed listener -> the last snapshot it was invoked with
  ev,           \* what the last step did
  row,          \* one NavEntryRow: its entry and what was derived from it
  page,         \* the listing page: path, history, snapshot, calls in flight
  daemon        \* the paths the daemon is running an operation on

vars == <<globDoneCb, subscribers, progresses, interval, doneCb, timers,
          pending, nextCb, fired, delivered, ev, row, page, daemon>>

storeVars == <<globDoneCb, subscribers, progresses, interval, doneCb, timers,
               pending, nextCb, fired, delivered, ev>>

NoCalls == [l \in Listeners |-> <<>>]

\* The store as one value, with what the running step has done so far:
\* glob counts the invocations of the store-wide callback, calls lists the
\* per-path callbacks in invocation order, each with the path it was looked
\* up by, sent lists the snapshots each listener was invoked with, started
\* and stopped tell whether setInterval and clearInterval were called.
Cur ==
  [subscribers |-> subscribers, progresses |-> progresses,
   interval |-> interval, timers |-> timers, doneCb |-> doneCb,
   glob |-> 0, calls |-> <<>>, sent |-> NoCalls,
   started |-> FALSE, stopped |-> FALSE]

\* ------------------------------------------------------ the store's code
\* set that stores the value and leaves the subscribers out
SetSilent(s, progress) == [s EXCEPT !.progresses = progress]

\* set(progress)
Set(s, progress) ==
  [s EXCEPT !.progresses = progress,
            !.sent = [l \in Listeners |->
                        IF l \in s.subscribers THEN Append(@[l], progress)
                        ELSE @[l]]]

\* a filter that only looks at the first reported record
VanishedFirstOnly(pathes, newProgresses) ==
  IF newProgresses = <<>> THEN pathes
  ELSE SelectSeq(pathes, LAMBDA p : p # Head(newProgresses).path)

\* progresses.map((p) => p.path), then one filter per reported record
RECURSIVE Vanished(_, _)
Vanished(pathes, newProgresses) ==
  IF newProgresses = <<>> THEN pathes
  ELSE Vanished(SelectSeq(pathes, LAMBDA p : p # Head(newProgresses).path),
                Tail(newProgresses))

\* pathes.length && globDoneCb !== undefined
GlobFires(pathes, glob) == Len(pathes) > 0 /\ glob

\* pathes.forEach: invoke and delete the callback of each path that has one
RECURSIVE FireCbs(_, _)
FireCbs(s, pathes) ==
  IF pathes = <<>> THEN s
  ELSE LET p == Head(pathes)
           cb == s.doneCb[p]
       IN  IF cb # None
           THEN FireCbs([s EXCEPT !.calls = Append(@, <<p, cb>>),
                                  !.doneCb[p] = None], Tail(pathes))
           ELSE FireCbs(s, Tail(pathes))

\* checkDone(newProgresses)
CheckDone(s, newProgresses) ==
  LET pathes == Vanished([i \in DOMAIN s.progresses |-> s.progresses[i].path],
                         newProgresses)
      s1 == IF GlobFires(pathes, globDoneCb)
            THEN [s EXCEPT !.glob = @ + 1] ELSE s
  IN  FireCbs(s1, pathes)

\* stopListen()
StopListen(s) ==
  IF s.interval # None
  THEN [s EXCEPT !.timers = @ \ {s.interval}, !.interval = None,
                 !.stopped = TRUE]
  ELSE s

\* setInterval: the runtime hands out a handle that is not in use
NewHandle(tm) ==
  IF \E h \in 1..MaxTimers : h \notin tm
  THEN CHOOSE h \in 1..MaxTimers : h \notin tm /\ \A k \in 1..(h - 1) : k \in tm
  ELSE MaxTimers

\* startListen without its guard: a second setInterval drops the old handle
StartListenUnguarded(s) ==
  [s EXCEPT !.interval = NewHandle(s.timers),
            !.timers = @ \cup {NewHandle(s.timers)},
            !.started = TRUE]

\* startListen(): the guard and the setInterval call
StartListen(s) ==
  IF s.interval = None
  THEN [s EXCEPT !.interval = NewHandle(s.timers),
                 !.timers = @ \cup {NewHandle(s.timers)},
                 !.started = TRUE]
  ELSE s

\* the interval callback without its stopListen branch
PollBodyNoStop(s, newProgresses) ==
  Set(CheckDone(s, newProgresses), newProgresses)

\* the body of the interval callback after its await
PollBody(s, newProgresses) ==
  LET s1 == IF Len(newProgresses) = 0 THEN StopListen(s) ELSE s
      s2 == CheckDone(s1, newProgresses)
  IN  Set(s2, newProgresses)

\* subscribe that registers without the immediate call
SubscribeBodyNoCall(s, l) == [s EXCEPT !.subscribers = @ \cup {l}]

\* subscribe(subscriber)
SubscribeBody(s, l) ==
  [s EXCEPT !.subscribers = @ \cup {l},
            !.sent[l] = Append(@, s.progresses)]

\* an unsubscribe function that stops the timer whoever is left
UnsubscribeBodyAlwaysStops(s, l) ==
  StopListen([s EXCEPT !.subscribers = @ \ {l}])

\* the function subscribe returns
UnsubscribeBody(s, l) ==
  LET s1 == [s EXCEPT !.subscribers = @ \ {l}]
  IN  IF Cardinality(s1.subscribers) = 0 THEN StopListen(s1) ELSE s1

\* add without the search for the path: always the append
AddRecordAppend(progs, progress) == Append(progs, progress)

\* add: the forEach that updates in place, else the append
AddRecord(progs, progress) ==
  IF \E i \in DOMAIN progs : progs[i].path = progress.path
  THEN [i \in DOMAIN progs |->
          IF progs[i].path = progress.path
          THEN [progs[i] EXCEPT !.progress = progress.progress]
          ELSE progs[i]]
  ELSE Append(progs, progress)

\* add that skips the broadcast when it only updated a record in place
AddBodyQuietUpdate(s, progress, cb) ==
  LET found == \E i \in DOMAIN s.progresses : s.progresses[i].path = progress.path
      s1 == [s EXCEPT !.progresses = AddRecord(@, progress)]
      s2 == IF cb # None THEN [s1 EXCEPT !.doneCb[progress.path] = cb] ELSE s1
      s3 == IF found THEN s2 ELSE Set(s2, s2.progresses)
  IN  StartListen(s3)

\* add(progress, cb); cb = None when no callback is passed
AddBody(s, progress, cb) ==
  LET s1 == [s EXCEPT !.progresses = AddRecord(@, progress)]
      s2 == IF cb # None THEN [s1 EXCEPT !.doneCb[progress.path] = cb] ELSE s1
      s3 == Set(s2, s2.progresses)
  IN  StartListen(s3)

\* remove: progresses.filter((p) => p.path !== path)
RemoveRecord(progs, path) == SelectSeq(progs, LAMBDA p : p.path # path)

\* remove that also stops the timer once nothing is tracked
RemoveBodyStops(s, path) ==
  LET s1 == [s EXCEPT !.progresses = RemoveRecord(@, path)]
      cb == s1.doneCb[path]
      s2 == IF cb # None
            THEN [s1 EXCEPT !.calls = Append(@, <<path, cb>>),
                             !.doneCb[path] = None]
            ELSE s1
      s3 == Set(s2, s2.progresses)
  IN  IF Len(s3.progresses) = 0 THEN StopListen(s3) ELSE s3

\* remove(path)
RemoveBody(s, path) ==
  LET s1 == [s EXCEPT !.progresses = RemoveRecord(@, path)]
      cb == s1.doneCb[path]
      s2 == IF cb # None
            THEN [s1 EXCEPT !.calls = Append(@, <<path, cb>>),
                             !.doneCb[path] = None]
            ELSE s1
  IN  Set(s2, s2.progresses)

\* check() that looks for finished paths the way the timer does
CheckBodyWithCheckDone(s, progress) ==
  LET s1 == Set(CheckDone(s, progress), progress)
  IN  IF Len(progress) > 0 THEN StartListen(s1) ELSE StopListen(s1)

\* check() after its await
CheckBody(s, progress) ==
  LET s1 == Set(s, progress)
  IN  IF Len(progress) > 0 THEN StartListen(s1) ELSE StopListen(s1)

\* ------------------------------------------------------------- the steps
Event(op, path, val, cb, l, res, stale, s) ==
  [op |-> op, path |-> path, val |-> val, cb |-> cb, l |-> l, res |-> res,
   stale |-> stale, glob |-> s.glob, calls |-> s.calls, sent |-> s.sent,
   started |-> s.started, stopped |-> s.stopped]

Count(calls, c) == Cardinality({i \in DOMAIN calls : calls[i][2] = c})

\* A query in flight when the timer is cleared was issued before that stop.
Mark(pend, s) ==
  [i \in DOMAIN pend |->
     IF s.stopped THEN [pend[i] EXCEPT !.stale = TRUE] ELSE pend[i]]

\* What a listener that is not subscribed holds: nothing of this store.
NoSnapshot == <<[path |-> NoPath, progress |-> 0]>>

\* The last snapshot each listener got under its current subscription.
Deliver(s) ==
  [l \in Listeners |->
     IF l \notin s.subscribers THEN NoSnapshot
     ELSE IF s.sent[l] # <<>> THEN s.sent[l][Len(s.sent[l])]
     ELSE delivered[l]]

CommitStore(s, pend, e) ==
  /\ subscribers' = s.subscribers
  /\ progresses' = s.progresses
  /\ interval' = s.interval
  /\ timers' = s.timers
  /\ doneCb' = s.doneCb
  /\ fired' = [c \in CbIds |-> fired[c] + Count(s.calls, c)]
  /\ delivered' = Deliver(s)
  /\ pending' = Mark(pend, s)
  /\ ev' = e
  /\ UNCHANGED globDoneCb

\* A step of the store alone.
Commit(s, pend, e) == CommitStore(s, pend, e) /\ UNCHANGED <<row, page, daemon>>

StoreInit ==
  /\ globDoneCb = TRUE   \* the UI constructs its stores with ackMutation
  /\ subscribers = {}
  /\ progresses = <<>>
  /\ interval = None
  /\ doneCb = [p \in Paths |-> None]
  /\ timers = {}
  /\ pending = <<[kind |-> "check", stale |-> FALSE]>>  \* check() at the end of construction
  /\ nextCb = 0
  /\ fired = [c \in CbIds |-> 0]
  /\ delivered = [l \in Listeners |-> NoSnapshot]
  /\ ev = Event("create", NoPath, 0, None, NoListener, <<>>, FALSE, Cur)

\* No row is mounted while the store is looked at on its own.
NoRow == [stage |-> "none"]

\* No page is shown and the daemon is idle while the store or a row is
\* looked at on its own.
NoPage == [stage |-> "none"]

Init == StoreInit /\ row = NoRow /\ page = NoPage /\ daemon = {}

Subscribe ==
  \E l \in Listeners :
    LET s == SubscribeBody(Cur, l)
    IN  /\ Commit(s, pending, Event("subscribe", NoPath, 0, None, l, <<>>, FALSE, s))
        /\ UNCHANGED nextCb

Unsubscribe ==
  \E l \in subscribers :
    LET s == UnsubscribeBody(Cur, l)
    IN  /\ Commit(s, pending, Event("unsubscribe", NoPath, 0, None, l, <<>>, FALSE, s))
        /\ UNCHANGED nextCb

Add ==
  \E p \in Paths, v \in Vals :
    LET s == AddBody(Cur, [path |-> p, progress |-> v], None)
    IN  /\ Commit(s, pending, Event("add", p, v, None, NoListener, <<>>, FALSE, s))
        /\ UNCHANGED nextCb

AddWithCb ==
  \E p \in Paths, v \in Vals :
    /\ nextCb < MaxCb
    /\ LET cb == nextCb + 1
           s == AddBody(Cur, [path |-> p, progress |-> v], cb)
       IN  /\ Commit(s, pending, Event("add", p, v, cb, NoListener, <<>>, FALSE, s))
           /\ nextCb' = cb

Remove ==
  \E p \in Paths :
    LET s == RemoveBody(Cur, p)
    IN  /\ Commit(s, pending, Event("remove", p, 0, None, NoListener, <<>>, FALSE, s))
        /\ UNCHANGED nextCb

\* check(): the call up to its await
Check ==
  /\ Len(pending) < MaxInFlight
  /\ Commit(Cur, Append(pending, [kind |-> "check", stale |-> FALSE]),
            Event("check", NoPath, 0, None, NoListener, <<>>, FALSE, Cur))
  /\ UNCHANGED nextCb

\* a live timer fires: the interval callback up to its await
Tick ==
  /\ timers # {}
  /\ Len(pending) < MaxInFlight
  /\ Commit(Cur, Append(pending, [kind |-> "poll", stale |-> FALSE]),
            Event("tick", NoPath, 0, None, NoListener, <<>>, FALSE, Cur))
  /\ UNCHANGED nextCb

\* the daemon answers a query of the timer
PollResolve ==
  \E i \in DOMAIN pending, res \in Results :
    /\ pending[i].kind = "poll"
    /\ LET s == PollBody(Cur, res)
       IN  Commit(s, RemoveAt(pending, i),
                  Event("poll", NoPath, 0, None, NoListener, res, pending[i].stale, s))
    /\ UNCHANGED nextCb

\* the daemon answers a query of check()
CheckResolve ==
  \E i \in DOMAIN pending, res \in Results :
    /\ pending[i].kind = "check"
    /\ LET s == CheckBody(Cur, res)
       IN  Commit(s, RemoveAt(pending, i),
                  Event("checked", NoPath, 0, None, NoListener, res, pending[i].stale, s))
    /\ UNCHANGED nextCb

\* the daemon call rejects: the async function ends at its await
Reject ==
  \E i \in DOMAIN pending :
    /\ Commit(Cur, RemoveAt(pending, i),
              Event("rejected", NoPath, 0, None, NoListener, <<>>, pending[i].stale, Cur))
    /\ UNCHANGED nextCb

Next ==
  \/ Subscribe
  \/ Unsubscribe
  \/ Add
  \/ AddWithCb
  \/ Remove
  \/ Check
  \/ Tick
  \/ PollResolve
  \/ CheckResolve
  \/ Reject

Spec == Init /\ [][Next]_vars

(***************************************************************************)
(* The entry classifier (lib/model.ts).  Objects are records with the      *)
(* keys the code tests with `in`: a Metadata is {directory} or {regular},  *)
(* an Entry is {local}, {remote} or {sync}, a TreeEntry wraps an Entry     *)
(* under `entry` next to its path and its node statistics.                 *)
(***************************************************************************)
MaxNodes == 2

Sizes == {100, 150}
Mtimes == {10, 20}

\* JavaScript null, for a modification time that is not recorded.
Null == -1

\* A directory statistic that the daemon did not send (stat?.data is undefined).
NoStat == [absent |-> TRUE]

Metadatas ==
  {[directory |-> [stat |-> s]] : s \in {NoStat} \cup [data : Sizes]} \cup
  {[regular |-> r] : r \in [size : Sizes, mtime : Mtimes \cup {Null}]}

Entries ==
  {[local |-> m] : m \in Metadatas} \cup
  {[remote |-> m] : m \in Metadatas} \cup
  {[sync |-> s] : s \in [local : Metadatas, remote : Metadatas, conflict : BOOLEAN]}

\* The statistics the daemon can attach to an entry: a regular file is one
\* node, in conflict or not; a directory counts up to MaxNodes nodes.
NodeStats(e) ==
  IF "sync" \notin DOMAIN e
    THEN [nodes : 1..MaxNodes, sync : {0}, conflicts : {0}]
    ELSE IF "regular" \in DOMAIN e.sync.local /\ "regular" \in DOMAIN e.sync.remote
      THEN {n \in [nodes : {1}, sync : 0..1, conflicts : 0..1] :
              /\ n.sync + n.conflicts <= 1
              /\ e.sync.conflict <=> n.conflicts = 1}
      ELSE {n \in [nodes : 1..MaxNodes, sync : 0..MaxNodes, conflicts : 0..MaxNodes] :
              /\ n.sync <= n.nodes /\ n.conflicts <= n.nodes
              /\ e.sync.conflict => n.conflicts > 0}

TreeEntries ==
  UNION {{[path |-> p, entry |-> e, stats |-> [node |-> n]] : n \in NodeStats(e)} :
           p \in Paths, e \in Entries}

\* What a call that throws leaves in place of its result.
TypeError == "TypeError"

metadataEntryType(metadata) ==
  IF "directory" \in DOMAIN metadata THEN "directory" ELSE "regular"

RECURSIVE entryTypeFromLocal(_)
entryTypeFromLocal(entry) ==
  IF "entry" \in DOMAIN entry THEN entryTypeFromLocal(entry.entry)
  ELSE IF "local" \in DOMAIN entry THEN metadataEntryType(entry.local)
  ELSE IF "remote" \in DOMAIN entry THEN metadataEntryType(entry.remote)
  ELSE metadataEntryType(entry.sync.local)

RECURSIVE entryType(_)
entryType(entry) ==
  IF "entry" \in DOMAIN entry THEN entryType(entry.entry)
  ELSE IF "local" \in DOMAIN entry THEN metadataEntryType(entry.local)
  ELSE IF "remote" \in DOMAIN entry THEN metadataEntryType(entry.remote)
  ELSE LET sync == entry.sync
           local == metadataEntryType(sync.local)
           remote == metadataEntryType(sync.remote)
       IN IF local # remote THEN "inconsistent" ELSE local

\* `entry.entry` of a bare Entry is undefined, and `'local' in undefined` throws.
entryStatus(entry) ==
  IF "entry" \notin DOMAIN entry THEN TypeError
  ELSE LET ee == entry.entry IN
    IF "local" \in DOMAIN ee THEN "local"
    ELSE IF "remote" \in DOMAIN ee THEN "remote"
    ELSE LET ns == entry.stats.node IN
      IF ns.conflicts # 0 THEN "conflict"
      ELSE IF ns.nodes = ns.sync THEN "sync-full"
      ELSE "sync"

\* The revision of entryStatus that reads the entry's own conflict flag.
RECURSIVE entryStatusOfFlag(_)
entryStatusOfFlag(entry) ==
  IF "entry" \in DOMAIN entry THEN entryStatusOfFlag(entry.entry)
  ELSE IF "local" \in DOMAIN entry THEN "local"
  ELSE IF "remote" \in DOMAIN entry THEN "remote"
  ELSE IF entry.sync.conflict THEN "conflict" ELSE "sync"

metadataSizeNoDefault(metadata) ==
  IF "directory" \in DOMAIN metadata
    THEN IF "data" \in DOMAIN metadata.directory.stat
           THEN metadata.directory.stat.data ELSE Null
    ELSE metadata.regular.size

metadataSize(metadata) ==
  IF "directory" \in DOMAIN metadata
    THEN IF "data" \in DOMAIN metadata.directory.stat
           THEN metadata.directory.stat.data ELSE 0
    ELSE metadata.regular.size

\* A number | {local, remote} result is kept as a record of either shape:
\* [scalar |-> n] for the number, [local |-> l, remote |-> r] for the pair.
Scalar(n) == [scalar |-> n]

RECURSIVE entrySize(_)
entrySize(entry) ==
  IF "entry" \in DOMAIN entry THEN entrySize(entry.entry)
  ELSE IF "local" \in DOMAIN entry THEN Scalar(metadataSize(entry.local))
  ELSE IF "remote" \in DOMAIN entry THEN Scalar(metadataSize(entry.remote))
  ELSE LET local == metadataSize(entry.sync.local)
           remote == metadataSize(entry.sync.remote)
       IN IF local = remote THEN Scalar(local)
                            ELSE [local |-> local, remote |-> remote]

metadataMtime(metadata) ==
  IF "directory" \in DOMAIN metadata THEN Null ELSE metadata.regular.mtime

RECURSIVE entryMtimeSwapped(_)
entryMtimeSwapped(entry) ==
  IF "entry" \in DOMAIN entry THEN entryMtimeSwapped(entry.entry)
  ELSE IF "local" \in DOMAIN entry THEN Scalar(metadataMtime(entry.local))
  ELSE IF "remote" \in DOMAIN entry THEN Scalar(metadataMtime(entry.remote))
  ELSE LET local == metadataMtime(entry.sync.local)
           remote == metadataMtime(entry.sync.remote)
       IN IF local = remote THEN Scalar(local)
                            ELSE [local |-> remote, remote |-> local]

RECURSIVE entryMtime(_)
entryMtime(entry) ==
  IF "entry" \in DOMAIN entry THEN entryMtime(entry.entry)
  ELSE IF "local" \in DOMAIN entry THEN Scalar(metadataMtime(entry.local))
  ELSE IF "remote" \in DOMAIN entry THEN Scalar(metadataMtime(entry.remote))
  ELSE LET local == metadataMtime(entry.sync.local)
           remote == metadataMtime(entry.sync.remote)
       IN IF local = remote THEN Scalar(local)
                            ELSE [local |-> local, remote |-> remote]

(***************************************************************************)
(* The context menu (lib/context-menu.ts).  A menu item is its text and    *)
(* the call its action makes; an Operation is the record the code builds.  *)
(***************************************************************************)
EntryTypes == {"directory", "regular", "inconsistent"}

\* The statuses the menu and the row's icon switch on.
EntryStatuses == {"local", "remote", "sync", "syncFull", "conflict", "conflictFull"}

ResolutionMethods ==
  <<"replaceOlderByNewer", "replaceNewerByOlder", "replaceLocalByRemote",
    "replaceRemoteByLocal", "deleteOlder", "deleteNewer", "deleteLocal",
    "deleteRemote">>

ResolutionTexts ==
  <<"Replace older by newer", "Replace newer by older", "Replace local by remote",
    "Replace remote by local", "Delete older", "Delete newer", "Delete local",
    "Delete remote">>

syncItemDeepOnly(text, path, op) ==
  [text |-> text, action |-> [syncDeep |-> path]]

syncItem(text, path, op) ==
  [text |-> text,
   action |-> IF op = "sync" THEN [sync |-> path] ELSE [syncDeep |-> path]]

resolveItemShallow(text, path, op, method) ==
  [text |-> text, action |-> [resolve |-> <<path, method>>]]

resolveItem(text, path, op, method) ==
  [text |-> text,
   action |-> IF op = "resolve" THEN [resolve |-> <<path, method>>]
                                ELSE [resolveDeep |-> <<path, method>>]]

\* an entry is taken to have a local side whatever it is
hasLocalAlways(entry) == TRUE

\* 'local' in entry.entry || 'sync' in entry.entry
hasLocal(entry) == "local" \in DOMAIN entry.entry \/ "sync" \in DOMAIN entry.entry

\* Nothing is built and nothing pops up.
NoMenu == [popup |-> FALSE, items |-> <<>>]

showContextMenuNoGuard(entry, type, status) ==
  [popup |-> TRUE,
   items |-> <<syncItem(IF type = "directory" THEN "Synchronize all" ELSE "Synchronize",
                        entry.path,
                        IF type = "directory" THEN "syncDeep" ELSE "sync")>>]

showContextMenu(entry, type, status) ==
  IF type = "inconsistent" THEN NoMenu
  ELSE
    LET open == IF hasLocal(entry)
                  THEN <<[text |-> "Open", action |-> [openPath |-> entry.path]]>>
                  ELSE <<>>
        sync == IF status # "syncFull"
                  THEN <<syncItem(IF type = "directory" THEN "Synchronize all"
                                                        ELSE "Synchronize",
                                  entry.path,
                                  IF type = "directory" THEN "syncDeep" ELSE "sync")>>
                  ELSE <<>>
        resolve ==
          IF status = "conflict" \/ status = "conflictFull"
            THEN LET text == IF type = "directory" THEN "Resolve All Conflicts"
                                                   ELSE "Resolve Conflict"
                     op == IF type = "directory" THEN "resolveDeep" ELSE "resolve"
                 IN <<[text |-> text,
                       items |-> [i \in 1..8 |->
                                    resolveItem(ResolutionTexts[i], entry.path, op,
                                                ResolutionMethods[i])]]>>
            ELSE <<>>
    IN [popup |-> TRUE, items |-> open \o sync \o resolve]

(***************************************************************************)
(* One row of the listing (NavEntryRow.svelte): its props, the values its  *)
(* reactive statements derive, the menu it pops up and the call it makes.  *)
(***************************************************************************)
\* A named progress state is a string in the code; only the counted state
\* has the `progress` key.
RowProgresses(path) ==
  {<<>>,
   <<[path |-> path, progress |-> [name |-> "compute"]]>>,
   <<[path |-> path, progress |-> [progress |-> [progress |-> 1, total |-> 2]]]>>}

RECURSIVE SumCounted(_, _)
SumCounted(p, field) ==
  IF p = <<>> THEN 0
  ELSE (IF "progress" \in DOMAIN Head(p).progress
          THEN Head(p).progress.progress[field] ELSE 0)
       + SumCounted(Tail(p), field)

RECURSIVE GCD(_, _)
GCD(a, b) == IF b = 0 THEN a ELSE GCD(b, a % b)

\* The number n / d, for d > 0: a fraction in lowest terms.
Ratio(n, d) == [num |-> n \div GCD(n, d), den |-> d \div GCD(n, d)]

\* The division without the test of total: 0 / 0 is NaN.
computeProgressPercentNoSpin(p) ==
  IF Len(p) = 0 THEN [null |-> TRUE]
  ELSE LET done == SumCounted(p, "progress")
           total == SumCounted(p, "total")
       IN IF total = 0 THEN [nan |-> TRUE]
                       ELSE [percent |-> Ratio(100 * done, total)]

\* The result is null, 'spin' or a number: one record shape for each.
computeProgressPercent(p) ==
  IF Len(p) = 0 THEN [null |-> TRUE]
  ELSE LET done == SumCounted(p, "progress")
           total == SumCounted(p, "total")
       IN IF total = 0 THEN [spin |-> TRUE]
                       ELSE [percent |-> Ratio(100 * done, total)]

\* The operation sync() hands to operate.
SyncOp(etyp, path) ==
  IF etyp = "directory" THEN [syncDeep |-> path] ELSE [sync |-> path]

\* The row's button is rendered, for upload or for download.
HasButton(r) ==
  /\ "spin" \notin DOMAIN r.progressPercent
  /\ "null" \in DOMAIN r.progressPercent
  /\ (r.status = "local" \/ r.status = "remote")

Mounted(entry, progress) ==
  [stage |-> "mounted", entry |-> entry, progress |-> progress]

Classify ==
  /\ row.stage = "mounted"
  /\ row' = [stage |-> "classified", entry |-> row.entry, progress |-> row.progress,
             etyp |-> entryType(row.entry),
             status |-> entryStatus(row.entry),
             statusOfFlag |-> entryStatusOfFlag(row.entry),
             size |-> entrySize(row.entry),
             mtime |-> entryMtime(row.entry),
             progressPercent |-> computeProgressPercent(row.progress)]
  /\ UNCHANGED <<storeVars, page, daemon>>

MenuShown(r, type, status) ==
  [stage |-> "menu", entry |-> r.entry, progress |-> r.progress,
   etyp |-> r.etyp, status |-> r.status, progressPercent |-> r.progressPercent,
   given |-> [type |-> type, status |-> status],
   menu |-> showContextMenu(r.entry, type, status)]

\* showContextMenu applied to any type and status.
ShowContextMenu ==
  /\ row.stage = "classified"
  /\ "entry" \in DOMAIN row.entry
  /\ \E type \in EntryTypes, status \in EntryStatuses :
       row' = MenuShown(row, type, status)
  /\ UNCHANGED <<storeVars, page, daemon>>

\* The row's own contextMenu(): the type and the status it derived.
ContextMenu ==
  /\ row.stage = "classified"
  /\ "entry" \in DOMAIN row.entry
  /\ row' = MenuShown(row, row.etyp, row.status)
  /\ UNCHANGED <<storeVars, page, daemon>>

\* The row after a click: the call its handler made (operate(op), or
\* openPath(path) for the Open item) and what was clicked.
Called(r, by, call) ==
  [stage |-> "called", entry |-> r.entry, progress |-> r.progress,
   etyp |-> r.etyp, status |-> r.status, progressPercent |-> r.progressPercent,
   given |-> IF by = "button" THEN [type |-> r.etyp, status |-> r.status] ELSE r.given,
   menu |-> IF by = "button" THEN NoMenu ELSE r.menu,
   by |-> by, call |-> call]

\* The call goes to operate; the Open item calls openPath instead.
IsOperate(call) == "openPath" \notin DOMAIN call

\* The user picks a plain item of the popped-up menu.
ChooseItem ==
  /\ row.stage = "menu"
  /\ \E i \in DOMAIN row.menu.items :
       /\ "action" \in DOMAIN row.menu.items[i]
       /\ row' = Called(row, "menu", row.menu.items[i].action)
  /\ UNCHANGED <<storeVars, page, daemon>>

\* The user picks a method in the resolution submenu.
ChooseResolve ==
  /\ row.stage = "menu"
  /\ \E i \in DOMAIN row.menu.items :
       /\ "items" \in DOMAIN row.menu.items[i]
       /\ \E j \in DOMAIN row.menu.items[i].items :
            row' = Called(row, "menu", row.menu.items[i].items[j].action)
  /\ UNCHANGED <<storeVars, page, daemon>>

\* The user clicks the upload or download button of the row.
ClickButton ==
  /\ row.stage = "classified"
  /\ "entry" \in DOMAIN row.entry
  /\ HasButton(row)
  /\ row' = Called(row, "button", SyncOp(row.etyp, row.entry.path))
  /\ UNCHANGED <<storeVars, page, daemon>>

\* The classifier on its own, over every well-formed TreeEntry and Entry.
ClassifyInit ==
  /\ StoreInit /\ page = NoPage /\ daemon = {}
  /\ \E e \in TreeEntries \cup Entries : row = Mounted(e, <<>>)

SpecClassify == ClassifyInit /\ [][Classify]_vars

\* The row, over the entries of two metadata: a directory and a file.
RowMetadatas ==
  {[directory |-> [stat |-> NoStat]], [regular |-> [size |-> 100, mtime |-> 10]]}

RowEntries == {t \in TreeEntries : \A k \in DOMAIN t.entry :
                 IF k = "sync"
                   THEN {t.entry.sync.local, t.entry.sync.remote} \subseteq RowMetadatas
                   ELSE t.entry[k] \in RowMetadatas}

RowInit ==
  /\ StoreInit /\ page = NoPage /\ daemon = {}
  /\ \E t \in RowEntries : \E p \in RowProgresses(t.path) : row = Mounted(t, p)

RowNext ==
  \/ Classify
  \/ ShowContextMenu
  \/ ContextMenu
  \/ ChooseItem
  \/ ChooseResolve
  \/ ClickButton

SpecRow == RowInit /\ [][RowNext]_vars

(***************************************************************************)
(* The listing page (routes/connect/+page.svelte): the path it shows, the  *)
(* navigation history, the snapshot of the path and the daemon calls it    *)
(* has in flight.  A handler and the reactive statements that run right    *)
(* after it are one step; an await ends the step.                          *)
(***************************************************************************)
MaxHistory == 3     \* entries the history may hold
MaxCalls == 2       \* daemon and path calls of the page in flight at one time

NavPaths == {"/", "/a", "/a/b"}

\* dirname of @tauri-apps/api/path
Dirname(path) == IF path = "/a/b" THEN "/a" ELSE "/"

\* What the daemon lists below a path.
ChildrenOf(path) ==
  IF path = "/" THEN <<"/a">> ELSE IF path = "/a" THEN <<"/a/b">> ELSE <<"/a/b/c">>

\* A NodeAndChildren: the node is named by its path.
Snapshot(path) == [node |-> path, children |-> ChildrenOf(path)]

\* daemonNodeAndChildren resolved without a value.
NoResult == [undefined |-> TRUE]

NullNode == "null"
EmptyNode == "{}"

PageNew ==
  [stage |-> "new", firstTime |-> TRUE, path |-> "/", store |-> "/",
   data |-> Snapshot("/"), node |-> Snapshot("/").node,
   children |-> Snapshot("/").children,
   pathHistory |-> <<"/">>, historyIndex |-> 0,
   pathInputColor |-> "base", calls |-> <<>>, op |-> "create", arg |-> "/"]

\* updateForPath(path) up to its await
updateForPath(pg, path) ==
  IF pg.firstTime THEN [pg EXCEPT !.firstTime = FALSE]
  ELSE IF path # "/"
    THEN [pg EXCEPT !.calls = Append(@, [kind |-> "update", path |-> path])]
    ELSE [pg EXCEPT !.pathInputColor = "base",
                    !.node = pg.data.node,
                    !.children = pg.data.children]

\* updateForPath(path) after its await: the try branch
updateForPathDone(pg, res) ==
  [pg EXCEPT !.pathInputColor = "base",
             !.node = IF "node" \in DOMAIN res THEN res.node ELSE EmptyNode,
             !.children = IF "children" \in DOMAIN res THEN res.children ELSE <<>>]

\* updateForPath(path) after its await: the catch branch
updateForPathFailed(pg) ==
  [pg EXCEPT !.pathInputColor = "red", !.node = NullNode, !.children = <<>>]

\* The reactive statements that depend on path: they run when a handler
\* has changed it, building the store of the new path and updating.
React(before, pg) ==
  IF pg.path # before.path
    THEN updateForPath([pg EXCEPT !.store = pg.path], pg.path)
    ELSE pg

\* navigate that appends without dropping the next history
navigateKeepsNext(pg, newPath) ==
  LET h == Append(pg.pathHistory, newPath)
  IN [pg EXCEPT !.pathHistory = h, !.historyIndex = Len(h) - 1, !.path = newPath]

\* navigate(newPath)
navigate(pg, newPath) ==
  LET h0 == pg.pathHistory
      h1 == IF Len(h0) > 0 /\ pg.historyIndex < Len(h0) - 1
              THEN SubSeq(h0, 1, pg.historyIndex + 1) ELSE h0
      h2 == Append(h1, newPath)
  IN [pg EXCEPT !.pathHistory = h2, !.historyIndex = Len(h2) - 1, !.path = newPath]

\* goBack without its guard
goBackUnguarded(pg) ==
  [pg EXCEPT !.historyIndex = @ - 1,
             !.path = IF pg.historyIndex > 0 THEN pg.pathHistory[pg.historyIndex]
                                             ELSE pg.path]

\* goBack()
goBack(pg) ==
  IF Len(pg.pathHistory) > 0 /\ pg.historyIndex > 0
    THEN [pg EXCEPT !.historyIndex = @ - 1, !.path = pg.pathHistory[pg.historyIndex]]
    ELSE pg

\* goNext()
goNext(pg) ==
  IF Len(pg.pathHistory) > 0 /\ pg.historyIndex < Len(pg.pathHistory) - 1
    THEN [pg EXCEPT !.historyIndex = @ + 1,
                    !.path = pg.pathHistory[pg.historyIndex + 2]]
    ELSE pg

\* ackMutation() up to its first await
ackMutation(pg) == [pg EXCEPT !.calls = Append(@, [kind |-> "ack", path |-> "/"])]

backEnabled(pg) == Len(pg.pathHistory) > 1 /\ pg.historyIndex > 0
nextEnabled(pg) == Len(pg.pathHistory) > 1 /\ pg.historyIndex < Len(pg.pathHistory) - 1
upEnabled(pg) == pg.path # "/"

\* The step is taken when the calls and the history it leaves fit the bounds.
PageStep(pg, op, arg) ==
  /\ Len(pg.calls) <= MaxCalls
  /\ Len(pg.pathHistory) <= MaxHistory
  /\ page' = [pg EXCEPT !.op = op, !.arg = arg]
  /\ UNCHANGED <<storeVars, row, daemon>>

\* The component is created: the reactive statements run for the first time.
Mount ==
  /\ page.stage = "new"
  /\ PageStep(updateForPath([page EXCEPT !.stage = "shown"], page.path), "mount", "/")

\* The path form is submitted, or a directory row is double-clicked.
Navigate ==
  /\ page.stage = "shown"
  /\ \E newPath \in NavPaths :
       PageStep(React(page, navigate(page, newPath)), "navigate", newPath)

GoBack ==
  /\ page.stage = "shown"
  /\ PageStep(React(page, goBack(page)), "goBack", page.path)

GoNext ==
  /\ page.stage = "shown"
  /\ PageStep(React(page, goNext(page)), "goNext", page.path)

\* goUp() up to its await of dirname(path)
GoUp ==
  /\ page.stage = "shown"
  /\ upEnabled(page)
  /\ PageStep([page EXCEPT !.calls = Append(@, [kind |-> "dirname", path |-> page.path])],
              "goUp", page.path)

\* dirname answers: goUp() navigates
DirnameResolve ==
  \E i \in DOMAIN page.calls :
    /\ page.calls[i].kind = "dirname"
    /\ LET pg == [page EXCEPT !.calls = RemoveAt(@, i)]
           to == Dirname(page.calls[i].path)
       IN PageStep(React(pg, navigate(pg, to)), "up", to)

GoHome ==
  /\ page.stage = "shown"
  /\ upEnabled(page)
  /\ PageStep(React(page, navigate(page, "/")), "goHome", "/")

\* A row reports a mutation, or a store reports that something finished.
AckMutation ==
  /\ page.stage = "shown"
  /\ PageStep(ackMutation(page), "ackMutation", page.path)

\* daemonNodeAndChildren(path) answers the fetch of updateForPath
UpdateResolve ==
  \E i \in DOMAIN page.calls :
    /\ page.calls[i].kind = "update"
    /\ \E res \in {Snapshot(page.calls[i].path), NoResult} :
         PageStep(updateForPathDone([page EXCEPT !.calls = RemoveAt(@, i)], res),
                  "updated", page.calls[i].path)

\* daemonNodeAndChildren(path) rejects the fetch of updateForPath
UpdateReject ==
  \E i \in DOMAIN page.calls :
    /\ page.calls[i].kind = "update"
    /\ PageStep(updateForPathFailed([page EXCEPT !.calls = RemoveAt(@, i)]),
                "updateFailed", page.calls[i].path)

\* daemonNodeAndChildren('/') answers ackMutation, which goes on to update
AckResolve ==
  \E i \in DOMAIN page.calls :
    /\ page.calls[i].kind = "ack"
    /\ LET pg == [page EXCEPT !.calls = RemoveAt(@, i), !.data = Snapshot("/")]
       IN PageStep(updateForPath(pg, pg.path), "acked", page.path)

\* daemonNodeAndChildren('/') rejects: ackMutation ends there
AckReject ==
  \E i \in DOMAIN page.calls :
    /\ page.calls[i].kind = "ack"
    /\ PageStep([page EXCEPT !.calls = RemoveAt(@, i)], "ackFailed", page.path)

NavInit == StoreInit /\ row = NoRow /\ daemon = {} /\ page = PageNew

NavNext ==
  \/ Mount
  \/ Navigate
  \/ GoBack
  \/ GoNext
  \/ GoUp
  \/ DirnameResolve
  \/ GoHome
  \/ AckMutation
  \/ UpdateResolve
  \/ UpdateReject
  \/ AckResolve
  \/ AckReject

SpecNav == NavInit /\ [][NavNext]_vars

(***************************************************************************)
(* The loop from a row to the daemon and back: the row hands an operation  *)
(* to operate, the daemon answers 'done' or a progress, the page fetches   *)
(* again or the store of the page tracks the path and polls until the      *)
(* daemon no longer reports it.  The page stays on '/', its store has the  *)
(* page as its one listener and ackMutation as its callback.               *)
(***************************************************************************)
\* The Progress values: a named state is a string in the code, kept here as
\* a record without the `progress` key.
Done == [name |-> "done"]
Counted == [progress |-> [progress |-> 1, total |-> 2]]
InFlight == {[name |-> "compute"], Counted}
Errors == {"daemon error"}

\* The two rows looked at: a local file and a directory in conflict.
OperateEntries ==
  {[path |-> "/a", entry |-> [local |-> [regular |-> [size |-> 100, mtime |-> 10]]],
    stats |-> [node |-> [nodes |-> 1, sync |-> 0, conflicts |-> 0]]],
   [path |-> "/b",
    entry |-> [sync |-> [local |-> [directory |-> [stat |-> NoStat]],
                         remote |-> [directory |-> [stat |-> NoStat]],
                         conflict |-> FALSE]],
    stats |-> [node |-> [nodes |-> 2, sync |-> 1, conflicts |-> 1]]]}

\* p.path.startsWith(entry.path): the first characters of path are prefix
StartsWith(path, prefix) ==
  Len(prefix) <= Len(path) /\ SubSeq(path, 1, Len(prefix)) = prefix

\* $progress.filter((p) => p.path.startsWith(entry.path))
ProgressOf(progs, entry) == SelectSeq(progs, LAMBDA p : StartsWith(p.path, entry.path))

\* The row is rendered again with the progress prop the store now gives.
RowSees(r, progs) ==
  LET p == ProgressOf(progs, r.entry)
  IN IF "progressPercent" \in DOMAIN r
       THEN [r EXCEPT !.progress = p, !.progressPercent = computeProgressPercent(p)]
       ELSE [r EXCEPT !.progress = p]

\* What daemonProgresses answers while the daemon runs the given paths.
Reported(running) ==
  LET n == Cardinality(running)
  IN CHOOSE s \in [1..n -> [path : running, progress : {Counted}]] :
       \A i, j \in 1..n : i < j => Rank(s[i].path) < Rank(s[j].path)

\* The row once its call is over: idle again, with what the call gave.
Settled(r, last, thrown, dispatched) ==
  [stage |-> "classified", entry |-> r.entry, progress |-> r.progress,
   etyp |-> r.etyp, status |-> r.status, progressPercent |-> r.progressPercent,
   last |-> last, thrown |-> thrown, dispatched |-> dispatched]

\* operate that reports every answer as a progress
operateAlwaysProgress(r, prog) == Settled(r, prog, "none", "progress")

\* operate(op) after its await: 'done' is a mutation, anything else a progress
operate(r, prog) ==
  Settled(r, prog, "none", IF prog = Done THEN "mutation" ELSE "progress")

\* operate that takes a rejection for a completed operation
operateRejectedAsDone(r, err) == Settled(r, Done, err, "mutation")

\* operate(op) when daemonOperate rejects: the await throws, nothing is dispatched
operateRejected(r, err) == Settled(r, Done, err, "none")

\* The page's handlers of the row's events: on:mutation={ackMutation},
\* on:progress={(e) => progress.add(e.detail)}.
Dispatched(r) ==
  IF r.dispatched = "mutation"
    THEN /\ page' = [ackMutation(page) EXCEPT !.op = "ackMutation", !.arg = page.path]
         /\ row' = r
         /\ UNCHANGED storeVars
    ELSE IF r.dispatched = "progress"
      THEN LET s == AddBody(Cur, [path |-> r.entry.path, progress |-> r.last], None)
           IN /\ CommitStore(s, pending,
                             Event("add", r.entry.path, r.last, None, NoListener,
                                   <<>>, FALSE, s))
              /\ row' = RowSees(r, s.progresses)
              /\ UNCHANGED <<nextCb, page>>
      ELSE /\ row' = r
           /\ UNCHANGED <<storeVars, page>>

\* The store-wide callback is ackMutation: it runs inside the store's step.
AfterStore(s) ==
  /\ row' = RowSees(row, s.progresses)
  /\ page' = IF s.glob > 0
               THEN [ackMutation(page) EXCEPT !.op = "ackMutation", !.arg = page.path]
               ELSE page

\* daemonOperate answers 'done': the daemon has nothing left to run
OperateDone ==
  /\ row.stage = "called" /\ IsOperate(row.call)
  /\ Len(page.calls) < MaxCalls
  /\ Dispatched(operate(row, Done))
  /\ UNCHANGED daemon

\* daemonOperate answers a progress: the daemon is running the operation
OperateProgress ==
  /\ row.stage = "called" /\ IsOperate(row.call)
  /\ \E prog \in InFlight : Dispatched(operate(row, prog))
  /\ daemon' = daemon \cup {row.entry.path}

\* daemonOperate rejects
OperateReject ==
  /\ row.stage = "called" /\ IsOperate(row.call)
  /\ \E err \in Errors : Dispatched(operateRejected(row, err))
  /\ UNCHANGED daemon

\* openPath answers: the row is idle again
OpenPathDone ==
  /\ row.stage = "called" /\ ~IsOperate(row.call)
  /\ row' = Settled(row, Done, "none", "none")
  /\ UNCHANGED <<storeVars, page, daemon>>

\* The daemon finishes an operation.
DaemonFinish ==
  /\ \E p \in daemon : daemon' = daemon \ {p}
  /\ UNCHANGED <<storeVars, row, page>>

\* The timer of the page's store fires; the daemon reads what it is running.
StoreTick ==
  /\ timers # {}
  /\ Len(pending) < MaxInFlight
  /\ CommitStore(Cur, Append(pending, [kind |-> "poll", stale |-> FALSE,
                                       res |-> Reported(daemon)]),
                 Event("tick", NoPath, 0, None, NoListener, <<>>, FALSE, Cur))
  /\ UNCHANGED <<nextCb, row, page, daemon>>

\* The answer of a poll reaches the store.
StorePoll ==
  \E i \in DOMAIN pending :
    /\ pending[i].kind = "poll"
    /\ LET s == PollBody(Cur, pending[i].res)
       IN /\ s.glob > 0 => Len(page.calls) < MaxCalls
          /\ CommitStore(s, RemoveAt(pending, i),
                         Event("poll", NoPath, 0, None, NoListener, pending[i].res,
                               pending[i].stale, s))
          /\ AfterStore(s)
    /\ UNCHANGED <<nextCb, daemon>>

\* The answer of the check() of the store's construction reaches the store.
StoreChecked ==
  \E i \in DOMAIN pending :
    /\ pending[i].kind = "check"
    /\ LET s == CheckBody(Cur, pending[i].res)
       IN /\ CommitStore(s, RemoveAt(pending, i),
                         Event("checked", NoPath, 0, None, NoListener, pending[i].res,
                               pending[i].stale, s))
          /\ AfterStore(s)
    /\ UNCHANGED <<nextCb, daemon>>

\* The page is shown, its store is built and subscribed to, check() is in
\* flight, and the row of one entry is mounted.
OperateInit ==
  /\ globDoneCb = TRUE
  /\ subscribers = {"l1"}
  /\ progresses = <<>>
  /\ interval = None
  /\ doneCb = [p \in Paths |-> None]
  /\ timers = {}
  /\ pending = <<[kind |-> "check", stale |-> FALSE, res |-> <<>>]>>
  /\ nextCb = 0
  /\ fired = [c \in CbIds |-> 0]
  /\ delivered = [l \in Listeners |-> IF l = "l1" THEN <<>> ELSE NoSnapshot]
  /\ ev = Event("subscribe", NoPath, 0, None, "l1", <<>>, FALSE,
                SubscribeBody([Cur EXCEPT !.subscribers = {}, !.progresses = <<>>], "l1"))
  /\ page = [PageNew EXCEPT !.stage = "shown", !.firstTime = FALSE, !.op = "mount"]
  /\ daemon = {}
  /\ \E e \in OperateEntries : row = Mounted(e, <<>>)

OperateNext ==
  \/ Classify
  \/ ContextMenu
  \/ ChooseItem
  \/ ChooseResolve
  \/ ClickButton
  \/ OperateDone
  \/ OperateProgress
  \/ OperateReject
  \/ OpenPathDone
  \/ DaemonFinish
  \/ StoreTick
  \/ StorePoll
  \/ StoreChecked
  \/ AckResolve
  \/ AckReject

\* Timers fire, the daemon answers every call and finishes what it runs;
\* what the user does is left open.
OperateFairness ==
  /\ WF_vars(StoreTick) /\ WF_vars(StorePoll) /\ WF_vars(StoreChecked)
  /\ WF_vars(DaemonFinish)
  /\ WF_vars(OperateDone \/ OperateProgress)
  /\ WF_vars(AckResolve)

SpecOperate == OperateInit /\ [][OperateNext]_vars /\ OperateFairness

\* ------------------------------------------------------------ properties
Tracked == PathsOf(progresses)
Heard(e, l) == e.sent[l]

\* C1: a per-path callback handed to add is invoked at the first poll tick
\* whose result does not contain its path, or at remove of its path; it is
\* discarded at that moment and never invoked a second time.  So no callback
\* stays registered for a path after a poll tick whose result lacks that
\* path or after remove of that path, an invoked callback is no longer
\* registered, and no callback has been invoked twice.
C1_CallbackFiresWhenPathAbsent ==
  /\ \A c \in CbIds : fired[c] <= 1
  /\ \A i \in DOMAIN ev.calls : doneCb[ev.calls[i][1]] # ev.calls[i][2]
  /\ ev.op = "remove" => doneCb[ev.path] = None
  /\ ev.op = "poll" => \A p \in Paths \ PathsOf(ev.res) : doneCb[p] = None

\* C2: a poll tick that returns the empty result while at least one path is
\* tracked invokes the store-wide callback exactly once (when one was
\* supplied), invokes every per-path callback registered for a tracked path
\* exactly once, and leaves the timer stopped: no timer is alive, so no
\* progress query is issued until add or check starts the timer again.
C2_EmptyPollFiresAllAndStops ==
  [][(ev'.op = "poll" /\ ev'.res = <<>> /\ progresses # <<>>) =>
       /\ ev'.glob = (IF globDoneCb THEN 1 ELSE 0)
       /\ \A p \in Tracked :
            doneCb[p] # None =>
              /\ Count(ev'.calls, doneCb[p]) = 1
              /\ fired'[doneCb[p]] = 1
       /\ interval' = None
       /\ timers' = {}]_vars

C2_Witness ==
  /\ ev.op = "poll" /\ ev.res = <<>>
  /\ ev.glob = 1
  /\ Len(ev.calls) = 2
  /\ ev.stopped
  /\ interval = None

\* C3: once the store has been stopped, the result of a poll query that was
\* issued before the stop and resolves after it is not applied: the progress
\* set is not replaced, no store-wide or per-path callback is invoked and no
\* listener is invoked.
C3_LatePollResultDropped ==
  [][(ev'.op = "poll" /\ ev'.stale) =>
       /\ progresses' = progresses
       /\ ev'.glob = 0
       /\ ev'.calls = <<>>
       /\ \A l \in Listeners : Heard(ev', l) = <<>>]_vars

\* C4: subscribe, in any state, registers the listener and invokes it exactly
\* once within the call with the store's current progress set (empty or
\* not), nobody else is invoked, and the function it returns deregisters
\* that listener.
C4_SubscribeCallsOnce ==
  [][/\ ev'.op = "subscribe" =>
          /\ subscribers' = subscribers \cup {ev'.l}
          /\ Heard(ev', ev'.l) = <<progresses>>
          /\ progresses' = progresses
          /\ \A m \in Listeners \ {ev'.l} : Heard(ev', m) = <<>>
          /\ ev'.glob = 0 /\ ev'.calls = <<>>
     /\ ev'.op = "unsubscribe" =>
          /\ ev'.l \in subscribers
          /\ subscribers' = subscribers \ {ev'.l}]_vars

C4_Witness ==
  /\ ev.op = "subscribe"
  /\ progresses # <<>>
  /\ Heard(ev, ev.l) = <<progresses>>
  /\ subscribers = Listeners

\* C5: calling an unsubscribe function stops the poll timer exactly when it
\* leaves the listener set empty, tracked paths or not; when other listeners
\* remain, the timer is left as it was and they stay registered.
C5_UnsubscribeStopsWhenLast ==
  [][ev'.op = "unsubscribe" =>
       /\ subscribers' = subscribers \ {ev'.l}
       /\ IF subscribers' = {}
          THEN interval' = None /\ timers' = {} /\ (ev'.stopped <=> interval # None)
          ELSE interval' = interval /\ timers' = timers /\ ~ev'.stopped]_vars

C5_Witness ==
  /\ ev.op = "unsubscribe"
  /\ subscribers = {}
  /\ ev.stopped
  /\ progresses # <<>>

\* C6: add is idempotent per path: after add the store holds exactly one
\* record for the added path, with the progress value of that call, also
\* when the path was tracked already; and in every reachable state no two
\* records of the store have the same path.
C6_OneRecordPerPath ==
  /\ \A i, j \in DOMAIN progresses :
       i # j => progresses[i].path # progresses[j].path
  /\ ev.op = "add" =>
       /\ Cardinality({i \in DOMAIN progresses : progresses[i].path = ev.path}) = 1
       /\ \A i \in DOMAIN progresses :
            progresses[i].path = ev.path => progresses[i].progress = ev.val

\* add of a path that is not the last record: it was updated in place
C6_Witness ==
  /\ ev.op = "add"
  /\ Len(progresses) = 2
  /\ progresses[1].path = ev.path
  /\ progresses[1].progress = ev.val

\* C7: every add broadcasts the resulting progress set to all current
\* listeners, once each, and leaves the poll timer running; and the store
\* never has more than one timer alive, and the handle it holds is that
\* timer.
C7_AddBroadcastsOneTimer ==
  /\ Cardinality(timers) <= 1
  /\ interval # None => timers = {interval}
  /\ ev.op = "add" =>
       /\ interval # None
       /\ \A l \in subscribers : Heard(ev, l) = <<progresses>>

C7_Witness ==
  /\ ev.op = "add"
  /\ ~ev.started
  /\ subscribers = Listeners
  /\ Len(progresses) = 2
  /\ timers = {interval}

\* C8: remove(path) deletes the records of that path and no other, invokes
\* and discards the callback registered for the path if there is one,
\* and broadcasts the new set to all listeners; it does not invoke the
\* store-wide callback, leaves the callbacks of other paths registered and
\* uninvoked, and neither starts nor stops the timer.
C8_RemoveFrame ==
  [][ev'.op = "remove" =>
       LET p == ev'.path IN
       /\ progresses' = SelectSeq(progresses, LAMBDA r : r.path # p)
       /\ ev'.calls = (IF doneCb[p] # None THEN << <<p, doneCb[p]>> >> ELSE <<>>)
       /\ doneCb'[p] = None
       /\ \A q \in Paths \ {p} : doneCb'[q] = doneCb[q]
       /\ \A c \in CbIds : fired'[c] = fired[c] + (IF doneCb[p] = c THEN 1 ELSE 0)
       /\ \A l \in subscribers : Heard(ev', l) = <<progresses'>>
       /\ ev'.glob = 0
       /\ interval' = interval /\ timers' = timers
       /\ ~ev'.started /\ ~ev'.stopped
       /\ subscribers' = subscribers]_vars

\* remove of the last tracked path, with a callback of its own and one of
\* another path registered, while listeners and the timer are there
C8_Witness ==
  /\ ev.op = "remove"
  /\ Len(ev.calls) = 1
  /\ \E q \in Paths \ {ev.path} : doneCb[q] # None
  /\ progresses = <<>>
  /\ subscribers # {}
  /\ interval # None

\* C9: on every poll tick the vanished paths are the paths tracked before
\* the tick minus the paths of the result; the store-wide callback is invoked
\* once if that set is not empty (and a callback was supplied) and not at all
\* otherwise, and a per-path callback is invoked only for a path of that set,
\* each at most once.
C9_VanishedIsSetDifference ==
  [][ev'.op = "poll" =>
       LET vanished == Tracked \ PathsOf(ev'.res) IN
       /\ ev'.glob = (IF vanished # {} /\ globDoneCb THEN 1 ELSE 0)
       /\ \A i \in DOMAIN ev'.calls :
            /\ ev'.calls[i][1] \in vanished
            /\ ev'.calls[i][2] = doneCb[ev'.calls[i][1]]
            /\ Count(ev'.calls, ev'.calls[i][2]) = 1
       /\ \A p \in Paths \ vanished : doneCb'[p] = doneCb[p]]_vars

\* a tick where one path vanished and one stayed, both with a callback
C9_Witness ==
  /\ ev.op = "poll"
  /\ ev.glob = 1
  /\ Len(ev.calls) = 1
  /\ \E p \in Tracked : doneCb[p] # None

\* C10: after a poll tick the progress set of the store is the result of the
\* tick's query, and every current listener has been invoked with that set.
C10_PollResultReplacesSet ==
  ev.op = "poll" =>
    /\ progresses = ev.res
    /\ \A l \in subscribers : Heard(ev, l) = <<ev.res>>

C10_Witness ==
  /\ ev.op = "poll"
  /\ Len(ev.res) = 2
  /\ subscribers = Listeners

\* C11: when a progress query issued by a poll tick fails, the store stops
\* its poll timer (so that later ticks issue no more queries): after the
\* rejection of a poll query no timer is alive and interval is undefined.
C11_FailedPollStopsTimer ==
  [][(/\ ev'.op = "rejected"
      /\ \E i \in DOMAIN pending :
           pending[i].kind = "poll" /\ pending' = RemoveAt(pending, i)) =>
       (interval' = None /\ timers' = {})]_vars

\* C12: every change of the progress set (add, remove, poll result, check)
\* is delivered to all subscribed listeners within the same step, once and
\* with the set the step produced; so in every reachable state the last
\* snapshot delivered to a subscribed listener is the current progress set.
C12_ListenersHoldCurrentSet ==
  /\ \A l \in subscribers : delivered[l] = progresses
  /\ ev.op \in {"add", "remove", "poll", "checked"} =>
       \A l \in subscribers : Heard(ev, l) = <<progresses>>
  /\ ev.op \in {"tick", "check", "rejected", "unsubscribe"} =>
       \A l \in Listeners : Heard(ev, l) = <<>>

\* add of a path that is tracked already, with a new value, while both
\* listeners are subscribed
C12_Witness ==
  /\ ev.op = "add"
  /\ subscribers = Listeners
  /\ Len(progresses) = 2
  /\ progresses[1].path = ev.path
  /\ ev.val = 2
  /\ \A l \in Listeners : delivered[l] = progresses

(***************************************************************************)
(* The classifier and the menu: what the claims say of them.               *)
(***************************************************************************)
Classified == "etyp" \in DOMAIN row
Unwrapped(x) == IF "entry" \in DOMAIN x THEN x.entry ELSE x
IsDir(m) == "directory" \in DOMAIN m
Declared(m) == IF IsDir(m) THEN "directory" ELSE "regular"
SizeOf(m) ==
  IF IsDir(m)
    THEN IF "data" \in DOMAIN m.directory.stat THEN m.directory.stat.data ELSE 0
    ELSE m.regular.size
MtimeOf(m) == IF IsDir(m) THEN Null ELSE m.regular.mtime

\* The two spellings of the full statuses name the same status.
Canon(status) ==
  IF status = "sync-full" THEN "syncFull"
  ELSE IF status = "conflict-full" THEN "conflictFull"
  ELSE status

\* The six-way status of a TreeEntry whose two sides agree on their type.
SixWay(t) ==
  LET e == t.entry
      n == t.stats.node
  IN IF "local" \in DOMAIN e THEN "local"
     ELSE IF "remote" \in DOMAIN e THEN "remote"
     ELSE IF ~IsDir(e.sync.local) /\ e.sync.conflict THEN "conflict"
     ELSE IF IsDir(e.sync.local) /\ n.conflicts > 0 THEN "conflictFull"
     ELSE IF n.sync = n.nodes THEN "syncFull"
     ELSE "sync"

\* C13: the status of a TreeEntry is the six-way classification: Local,
\* Remote, and for a Synced entry Conflict (a file in conflict) or
\* ConflictFull (a directory with conflicts below it), else SyncFull when
\* every node is synchronized, else Sync.
C13_StatusSixWay ==
  (/\ Classified
   /\ "entry" \in DOMAIN row.entry
   /\ row.etyp # "inconsistent") =>
    Canon(row.status) = SixWay(row.entry)

\* C14: the type of an entry is always one of directory, regular and
\* inconsistent: the declared type of the single side, or of both sides
\* when they agree, and inconsistent exactly when they disagree.
C14_TypeTotal ==
  Classified =>
    LET e == Unwrapped(row.entry) IN
      /\ row.etyp \in EntryTypes
      /\ "local" \in DOMAIN e => row.etyp = Declared(e.local)
      /\ "remote" \in DOMAIN e => row.etyp = Declared(e.remote)
      /\ "sync" \in DOMAIN e =>
           LET l == Declared(e.sync.local)
               r == Declared(e.sync.remote)
           IN /\ l = r => row.etyp = l
              /\ row.etyp = "inconsistent" <=> l # r

C14_Witness ==
  /\ Classified
  /\ "entry" \in DOMAIN row.entry
  /\ "sync" \in DOMAIN row.entry.entry
  /\ IsDir(row.entry.entry.sync.local)
  /\ ~IsDir(row.entry.entry.sync.remote)
  /\ row.etyp = "inconsistent"

\* C15: the size of an entry is the size of its single side, a directory
\* without statistic counting 0; for a Synced entry it is one number exactly
\* when both sides have the same size, and the pair local, remote otherwise.
C15_SizeCollapses ==
  Classified =>
    LET e == Unwrapped(row.entry) IN
      /\ "local" \in DOMAIN e => row.size = Scalar(SizeOf(e.local))
      /\ "remote" \in DOMAIN e => row.size = Scalar(SizeOf(e.remote))
      /\ "sync" \in DOMAIN e =>
           LET l == SizeOf(e.sync.local)
               r == SizeOf(e.sync.remote)
           IN /\ "scalar" \in DOMAIN row.size <=> l = r
              /\ l = r => row.size = Scalar(l)
              /\ l # r => row.size = [local |-> l, remote |-> r]

C15_Witness ==
  /\ Classified
  /\ "sync" \in DOMAIN Unwrapped(row.entry)
  /\ IsDir(Unwrapped(row.entry).sync.local)
  /\ row.size = [local |-> 0, remote |-> 150]

\* C16: the modification time of an entry follows the same rule: null for a
\* directory, the recorded time for a file; for a Synced entry one value
\* exactly when both sides have the same time, and the pair otherwise.
C16_MtimeCollapses ==
  Classified =>
    LET e == Unwrapped(row.entry) IN
      /\ "local" \in DOMAIN e => row.mtime = Scalar(MtimeOf(e.local))
      /\ "remote" \in DOMAIN e => row.mtime = Scalar(MtimeOf(e.remote))
      /\ "sync" \in DOMAIN e =>
           LET l == MtimeOf(e.sync.local)
               r == MtimeOf(e.sync.remote)
           IN /\ "scalar" \in DOMAIN row.mtime <=> l = r
              /\ l = r => row.mtime = Scalar(l)
              /\ l # r => row.mtime = [local |-> l, remote |-> r]

C16_Witness ==
  /\ Classified
  /\ "sync" \in DOMAIN Unwrapped(row.entry)
  /\ row.mtime = [local |-> Null, remote |-> 20]

\* C17: each of the four classification functions gives for a TreeEntry
\* what it gives for the Entry inside it, and gives a result, not an
\* exception, for an Entry that is not wrapped.
C17_UnwrapsTreeEntry ==
  Classified =>
    LET e == Unwrapped(row.entry) IN
      /\ row.etyp = entryType(e) /\ row.etyp # TypeError
      /\ row.size = entrySize(e)
      /\ row.mtime = entryMtime(e)
      /\ row.status = entryStatus(e) /\ row.status # TypeError

MenuBuilt == row.stage = "menu" \/ (row.stage = "called" /\ row.by = "menu")

\* C18: for an inconsistent entry no menu is built and no item is offered,
\* the row shows no button, and nothing the user does calls operate.
C18_InconsistentForbidsAll ==
  /\ (MenuBuilt /\ row.given.type = "inconsistent") => row.menu = NoMenu
  /\ row.stage = "called" =>
       /\ row.given.type # "inconsistent"
       /\ row.by = "button" => row.etyp # "inconsistent"
  /\ (Classified /\ row.etyp = "inconsistent") => ~HasButton(row)

C18_Witness ==
  /\ row.stage = "menu"
  /\ row.etyp = "inconsistent"
  /\ row.given = [type |-> "inconsistent", status |-> "conflict"]
  /\ row.menu.items = <<>>
  /\ ~row.menu.popup

SyncItems(items) ==
  {i \in DOMAIN items :
     /\ "action" \in DOMAIN items[i]
     /\ DOMAIN items[i].action \cap {"sync", "syncDeep"} # {}}

\* C19: for a type that is not inconsistent the menu has a synchronize item
\* exactly when the status is not syncFull: 'Synchronize' calling
\* operate({sync: path}) for a file, 'Synchronize all' calling
\* operate({syncDeep: path}) for a directory, with the entry's path.
C19_SyncOfferedUnlessSyncFull ==
  (MenuBuilt /\ row.given.type # "inconsistent") =>
    LET items == row.menu.items
        S == SyncItems(items)
        dir == row.given.type = "directory"
        item == IF dir
                  THEN [text |-> "Synchronize all",
                        action |-> [syncDeep |-> row.entry.path]]
                  ELSE [text |-> "Synchronize", action |-> [sync |-> row.entry.path]]
    IN /\ S # {} <=> row.given.status # "syncFull"
       /\ Cardinality(S) <= 1
       /\ \A i \in S : items[i] = item
       /\ (row.stage = "called" /\ DOMAIN row.call \cap {"sync", "syncDeep"} # {}) =>
            row.call = item.action

C19_Witness ==
  /\ row.stage = "called" /\ row.by = "menu"
  /\ row.given = [type |-> "regular", status |-> "sync"]
  /\ row.call = [sync |-> "/b"]
  /\ row.entry.path = "/b"

EightMethods ==
  {"replaceOlderByNewer", "replaceNewerByOlder", "replaceLocalByRemote",
   "replaceRemoteByLocal", "deleteOlder", "deleteNewer", "deleteLocal", "deleteRemote"}

IsResolve(a) == DOMAIN a \cap {"resolve", "resolveDeep"} # {}
ResolveArgs(a) == IF "resolve" \in DOMAIN a THEN a.resolve ELSE a.resolveDeep

\* C20: the menu has a resolution submenu exactly when the status is conflict
\* or conflictFull and the type is not inconsistent; the submenu holds each
\* of the eight methods once, and picking one calls operate with
\* {resolve: [path, method]} for a file, {resolveDeep: [path, method]} for a
\* directory.
C20_ResolveSubmenuOnConflict ==
  MenuBuilt =>
    LET items == row.menu.items
        R == {i \in DOMAIN items : "items" \in DOMAIN items[i]}
        dir == row.given.type = "directory"
        path == row.entry.path
    IN /\ R # {} <=> (/\ row.given.status \in {"conflict", "conflictFull"}
                      /\ row.given.type # "inconsistent")
       /\ Cardinality(R) <= 1
       /\ \A i \in R :
            LET sub == items[i].items IN
              /\ Len(sub) = 8
              /\ \A j \in DOMAIN sub :
                   /\ IsResolve(sub[j].action)
                   /\ "resolveDeep" \in DOMAIN sub[j].action <=> dir
                   /\ ResolveArgs(sub[j].action)[1] = path
              /\ \A m \in EightMethods :
                   Cardinality({j \in DOMAIN sub :
                                  ResolveArgs(sub[j].action)[2] = m}) = 1
       /\ (row.stage = "called" /\ IsResolve(row.call)) =>
            /\ "resolveDeep" \in DOMAIN row.call <=> dir
            /\ ResolveArgs(row.call)[1] = path
            /\ ResolveArgs(row.call)[2] \in EightMethods

C20_Witness ==
  /\ row.stage = "called" /\ row.by = "menu"
  /\ row.given = [type |-> "directory", status |-> "conflictFull"]
  /\ row.call = [resolveDeep |-> <<"/a", "deleteRemote">>]
  /\ row.entry.path = "/a"

\* C30: check() issues one query; its answer replaces the set and is sent to
\* every listener, the timer runs afterwards exactly when the answer is not
\* empty, and no callback is invoked or unregistered, whatever the answer
\* leaves out.
C30_CheckNeverCallsBack ==
  [][/\ ev'.op = "check" =>
          /\ pending' = Append(pending, [kind |-> "check", stale |-> FALSE])
          /\ UNCHANGED <<progresses, interval, timers, doneCb, fired, subscribers>>
     /\ ev'.op = "checked" =>
          /\ Len(pending') = Len(pending) - 1
          /\ progresses' = ev'.res
          /\ \A l \in Listeners :
               Heard(ev', l) = IF l \in subscribers THEN <<ev'.res>> ELSE <<>>
          /\ ev'.res # <<>> => (interval' # None /\ interval' \in timers')
          /\ ev'.res = <<>> => (interval' = None /\ timers' = timers \ {interval})
          /\ ev'.glob = 0 /\ ev'.calls = <<>>
          /\ doneCb' = doneCb /\ fired' = fired]_vars

C30_Witness ==
  /\ ev.op = "checked"
  /\ \E p \in Paths : doneCb[p] # None /\ p \notin PathsOf(progresses)
  /\ \A c \in CbIds : fired[c] = 0
  /\ subscribers # {}

OpenItems(items) ==
  {i \in DOMAIN items :
     "action" \in DOMAIN items[i] /\ "openPath" \in DOMAIN items[i].action}

HasLocalSide(t) == "local" \in DOMAIN t.entry \/ "sync" \in DOMAIN t.entry

\* C21, as stated: the menu asked for an entry, with the entry's own type,
\* offers 'Open' exactly when the entry is LocalOnly or Synced.
C21_OpenIffLocalSide ==
  (MenuBuilt /\ row.given.type = row.etyp) =>
    (OpenItems(row.menu.items) # {} <=> HasLocalSide(row.entry))

\* C21, amended: when the type is not inconsistent the menu offers 'Open',
\* once, calling openPath with the entry's path, exactly when the entry is
\* LocalOnly or Synced; for an inconsistent type, which only a Synced entry
\* has, no menu is built and 'Open' is not offered.
C21_OpenIffLocalSideAndConsistent ==
  MenuBuilt =>
    LET items == row.menu.items
        O == OpenItems(items)
    IN /\ row.given.type # "inconsistent" =>
            /\ O # {} <=> HasLocalSide(row.entry)
            /\ Cardinality(O) <= 1
            /\ \A i \in O :
                 items[i] = [text |-> "Open", action |-> [openPath |-> row.entry.path]]
       /\ row.given.type = "inconsistent" => O = {}
       /\ "remote" \in DOMAIN row.entry.entry => O = {}

C21_Witness ==
  /\ row.stage = "called" /\ row.by = "menu"
  /\ "local" \in DOMAIN row.entry.entry
  /\ row.entry.path = "/a"
  /\ row.call = [openPath |-> "/a"]

\* C24: an operation is handed to operate, from the button or from the
\* menu, only for a row whose path has no record in the store.
C24_NoSecondOperation ==
  (row.stage = "called" /\ IsOperate(row.call)) => row.progress = <<>>

FullySynced(t) ==
  /\ "sync" \in DOMAIN t.entry
  /\ t.stats.node.conflicts = 0
  /\ t.stats.node.sync = t.stats.node.nodes

\* C27: the menu the row builds from the type and the status it derived has
\* no synchronize item for a fully synchronized entry, and has the
\* resolution submenu for a directory with conflicts below it.
C27_MenuAgreesWithClassifier ==
  (/\ row.stage = "menu"
   /\ row.given = [type |-> row.etyp, status |-> row.status]
   /\ row.etyp # "inconsistent") =>
    LET items == row.menu.items IN
      /\ FullySynced(row.entry) => SyncItems(items) = {}
      /\ (row.etyp = "directory" /\ row.entry.stats.node.conflicts > 0) =>
           \E i \in DOMAIN items : "items" \in DOMAIN items[i]

(***************************************************************************)
(* The page: what the claims say of its history and of its fetches.        *)
(***************************************************************************)
Shown == page.stage = "shown"
SameHistory(a, b) ==
  /\ a.path = b.path
  /\ a.pathHistory = b.pathHistory
  /\ a.historyIndex = b.historyIndex
NavigationOps == {"navigate", "goHome", "up", "goBack", "goNext"}

\* C26: a fetch that fails marks the path input red, sets node to null and
\* empties the children, and the page goes on; a fetch that succeeds, and
\* every navigation to '/', leaves the input unmarked and shows the children
\* of that path.
C26_FetchFailureRecoverable ==
  [][/\ page'.op = "updateFailed" =>
          /\ page'.pathInputColor = "red"
          /\ page'.node = NullNode /\ page'.children = <<>>
          /\ page'.stage = "shown" /\ SameHistory(page', page)
     /\ page'.op = "updated" =>
          /\ page'.pathInputColor = "base"
          /\ \/ page'.node = page'.arg /\ page'.children = ChildrenOf(page'.arg)
             \/ page'.node = EmptyNode /\ page'.children = <<>>
     /\ (page'.op \in NavigationOps /\ page'.path = "/") =>
          /\ page'.pathInputColor = "base"
          /\ page'.node = page'.data.node
          /\ page'.children = page'.data.children]_vars

\* C28: the history index always points into the history, at the current
\* path; goBack at the first entry and goNext at the last entry change
\* nothing.
C28_HistoryWellFormed ==
  /\ [](page.stage # "none" =>
          /\ 0 <= page.historyIndex /\ page.historyIndex < Len(page.pathHistory)
          /\ page.path = page.pathHistory[page.historyIndex + 1])
  /\ [][/\ (page'.op = "goBack" /\ page.historyIndex = 0) =>
             page' = [page EXCEPT !.op = "goBack", !.arg = page.path]
        /\ (page'.op = "goNext" /\ page.historyIndex = Len(page.pathHistory) - 1) =>
             page' = [page EXCEPT !.op = "goNext", !.arg = page.path]]_vars

\* goBack was called on a history that never had a second entry.
C28_Witness ==
  /\ Shown /\ page.op = "goBack"
  /\ page.pathHistory = <<"/">>
  /\ page.historyIndex = 0
  /\ page.path = "/"

OperateEnds == row.stage = "called" /\ IsOperate(row.call) /\ row'.stage = "classified"

RecordsOf(progs, path) == {i \in DOMAIN progs : progs[i].path = path}

\* C22: when operate answers 'done' the page fetches again and the store is
\* left alone; when it answers a progress, the store gets the one record of
\* the entry's path with that progress and the page fetches nothing.
C22_DoneRefetchesElseTracks ==
  [][(OperateEnds /\ row'.thrown = "none") =>
       IF row'.last = Done
         THEN /\ page'.calls = Append(page.calls, [kind |-> "ack", path |-> "/"])
              /\ UNCHANGED <<progresses, delivered, interval, timers, pending, doneCb>>
         ELSE /\ row'.last \in InFlight
              /\ PathsOf(progresses') = PathsOf(progresses) \cup {row.entry.path}
              /\ \A i \in RecordsOf(progresses', row.entry.path) :
                   progresses'[i] = [path |-> row.entry.path, progress |-> row'.last]
              /\ Cardinality(RecordsOf(progresses', row.entry.path)) = 1
              /\ delivered'["l1"] = progresses'
              /\ page' = page]_vars

C22_Witness ==
  /\ row.stage = "classified" /\ "last" \in DOMAIN row
  /\ row.last = Counted /\ row.thrown = "none"
  /\ row.entry.path = "/a"
  /\ progresses = <<[path |-> "/a", progress |-> Counted]>>
  /\ page.calls = <<>>
  /\ ev.op = "add"

\* C23: a path the store tracks is in the end reported finished by a poll
\* and fetched again; a record leaves the store only that way, and only
\* once the daemon no longer runs the operation.
C23_InFlightLeadsToRefetch ==
  /\ \A p \in Paths :
       (p \in PathsOf(progresses)) ~>
         (ev.op = "poll" /\ ev.glob > 0 /\ p \notin PathsOf(progresses)
            /\ \E i \in DOMAIN page.calls : page.calls[i].kind = "ack")
  /\ [][\A p \in PathsOf(progresses) \ PathsOf(progresses') :
          /\ ev'.op = "poll" /\ ev'.glob > 0
          /\ p \notin daemon]_vars

\* C25: when operate rejects, the error is thrown as it came, the row is
\* idle and has dispatched nothing, and the page, the store, its listener
\* and the daemon are as before.
C25_RejectionChangesNothing ==
  [][(OperateEnds /\ row'.thrown # "none") =>
       /\ row'.thrown \in Errors
       /\ row'.dispatched = "none"
       /\ page' = page
       /\ daemon' = daemon
       /\ UNCHANGED <<subscribers, progresses, interval, timers, pending, doneCb,
                      fired, delivered>>]_vars

C25_Witness ==
  /\ row.stage = "classified" /\ "thrown" \in DOMAIN row
  /\ row.thrown = "daemon error" /\ row.dispatched = "none"
  /\ page.calls = <<>>
  /\ progresses = <<>>

(***************************************************************************)
(* The store with a daemon that answers every query: no call rejects.      *)
(***************************************************************************)
NextAnswered ==
  \/ Subscribe
  \/ Unsubscribe
  \/ Add
  \/ AddWithCb
  \/ Remove
  \/ Check
  \/ Tick
  \/ PollResolve
  \/ CheckResolve

SpecAnswered == Init /\ [][NextAnswered]_vars

\* C31: while no query has failed, a store with a subscribed listener and
\* a record to follow has its timer running, also when the listener
\* subscribed after every listener had left.
C31_TimerRunsWhileWatched ==
  (subscribers # {} /\ progresses # <<>>) => interval # None

\* C32: the answer of a check() that was in flight when the last listener
\* left starts no timer and invokes no callback.
C32_AbandonedStoreStaysIdle ==
  [][(ev.op = "unsubscribe" /\ subscribers = {} /\ ev'.op = "checked") =>
       /\ interval' = None
       /\ timers' = {}
       /\ ~ev'.started
       /\ ev'.glob = 0
       /\ ev'.calls = <<>>]_vars

\* The callbacks handed to add that were never invoked.
Waiting == {c \in 1..nextCb : fired[c] = 0}

Registered == {doneCb[p] : p \in Paths} \ {None}

\* C33: every callback handed to add is kept until it is invoked, also when
\* a second callback is handed over for the same path, and the poll that
\* no longer reports a path invokes each callback kept for it, once.
C33_EveryCallbackInvoked ==
  /\ [](Waiting \subseteq Registered)
  /\ [][ev'.op = "poll" =>
          \A p \in PathsOf(progresses) \ PathsOf(ev'.res) :
            doneCb[p] # None => fired'[doneCb[p]] = 1]_vars

\* C34: the answer of a query that was in flight when a record was added
\* does not complete that record: the record stays, its callback is not
\* invoked, and the store-wide callback is invoked only for another path.
C34_OlderAnswerSparesNewRecord ==
  [][(ev.op = "add" /\ ev'.op = "poll") =>
       /\ ev.path \in PathsOf(progresses')
       /\ \A i \in DOMAIN ev'.calls : ev'.calls[i][1] # ev.path
       /\ ev'.glob > 0 =>
            \E q \in PathsOf(progresses) \ {ev.path} : q \notin PathsOf(ev'.res)]_vars

(***************************************************************************)
(* The store when the daemon answers slower than the timer fires: several  *)
(* queries of the timer are in flight, each numbered in the order of its   *)
(* issue, and the answers arrive in any order.  One listener is            *)
(* subscribed and the check() of the construction has been answered.       *)
(***************************************************************************)
MaxOverlap == 2     \* queries of the timer in flight at one time
MaxIssued == 3      \* queries issued in a row while another is in flight

Seqs(pend) == {pend[i].seq : i \in DOMAIN pend}

\* The number of the next query: one more than the newest in flight.
NextSeq(pend) ==
  IF pend = <<>> THEN 1
  ELSE 1 + (CHOOSE k \in Seqs(pend) : \A j \in Seqs(pend) : j <= k)

\* a live timer fires while earlier queries may still be in flight
OverlapTick ==
  /\ timers # {}
  /\ Len(pending) < MaxOverlap
  /\ NextSeq(pending) <= MaxIssued
  /\ Commit(Cur, Append(pending, [kind |-> "poll", stale |-> FALSE,
                                  seq |-> NextSeq(pending)]),
            Event("tick", NoPath, 0, None, NoListener, <<>>, FALSE, Cur))
  /\ UNCHANGED nextCb

OverlapInit ==
  /\ globDoneCb = TRUE
  /\ subscribers = {"l1"}
  /\ progresses = <<>>
  /\ interval = None
  /\ doneCb = [p \in Paths |-> None]
  /\ timers = {}
  /\ pending = <<>>
  /\ nextCb = 0
  /\ fired = [c \in CbIds |-> 0]
  /\ delivered = [l \in Listeners |-> IF l = "l1" THEN <<>> ELSE NoSnapshot]
  /\ ev = Event("checked", NoPath, 0, None, NoListener, <<>>, FALSE, Cur)
  /\ row = NoRow /\ page = NoPage /\ daemon = {}

OverlapNext ==
  \/ Add
  \/ OverlapTick
  \/ PollResolve

SpecOverlap == OverlapInit /\ [][OverlapNext]_vars

\* C35: the answers of the timer's queries are applied in the order the
\* queries were issued, and no answer of a query issued before the timer
\* was stopped leaves the store with records and without a timer.
C35_AnswersAppliedInIssueOrder ==
  /\ [][ev'.op = "poll" =>
          \A k \in Seqs(pending) \ Seqs(pending') :
            \A j \in Seqs(pending) : k <= j]_vars
  /\ [][(ev'.op = "poll" /\ ev'.stale) =>
          ~(progresses' # <<>> /\ interval' = None)]_vars

(***************************************************************************)
(* The listing hands each row the records of the page's store that belong  *)
(* to it: progress={$progress.filter((p) => p.path.startsWith(entry.path))}.*)
(* The row of '/a/foo' is looked at, with a store that follows the entry   *)
(* itself, an entry below it, and two of its siblings.                     *)
(***************************************************************************)
MaxTracked == 2     \* records the store of the page holds

ListingPaths == {"/a/foo", "/a/foo/x", "/a/foobar", "/a/b"}

ListingEntries ==
  {[path |-> "/a/foo", entry |-> [local |-> [regular |-> [size |-> 100, mtime |-> 10]]],
    stats |-> [node |-> [nodes |-> 1, sync |-> 0, conflicts |-> 0]]],
   [path |-> "/a/foo", entry |-> [remote |-> [directory |-> [stat |-> NoStat]]],
    stats |-> [node |-> [nodes |-> 2, sync |-> 0, conflicts |-> 0]]],
   [path |-> "/a/foo",
    entry |-> [sync |-> [local |-> [directory |-> [stat |-> NoStat]],
                         remote |-> [directory |-> [stat |-> NoStat]],
                         conflict |-> FALSE]],
    stats |-> [node |-> [nodes |-> 2, sync |-> 2, conflicts |-> 0]]]}

\* What the store can hold: at most one record for a path.
ListingProgresses ==
  {s \in UNION {[1..n -> [path : ListingPaths, progress : InFlight]] :
                  n \in 0..MaxTracked} :
     \A i, j \in DOMAIN s : i # j => s[i].path # s[j].path}

ListingInit ==
  /\ globDoneCb = TRUE
  /\ subscribers = {"l1"}
  /\ progresses \in ListingProgresses
  /\ interval = (IF progresses = <<>> THEN None ELSE 1)
  /\ doneCb = [p \in Paths |-> None]
  /\ timers = (IF progresses = <<>> THEN {} ELSE {1})
  /\ pending = <<>>
  /\ nextCb = 0
  /\ fired = [c \in CbIds |-> 0]
  /\ delivered = [l \in Listeners |-> IF l = "l1" THEN progresses ELSE NoSnapshot]
  /\ ev = Event("checked", NoPath, 0, None, NoListener, <<>>, FALSE, Cur)
  /\ page = [PageNew EXCEPT !.stage = "shown", !.firstTime = FALSE, !.op = "mount"]
  /\ daemon = {}
  /\ \E e \in ListingEntries : row = Mounted(e, ProgressOf(progresses, e))

SpecListing == ListingInit /\ [][Classify]_vars

\* The path is the directory itself or lies below it.
OwnOrBelow(path, dir) == path = dir \/ StartsWith(path, dir \o "/")

\* C36: the row is given only records of its own path or of a path below
\* it, and records of other paths do not take its button away.
C36_RowShowsOwnProgressOnly ==
  row.stage \in {"mounted", "classified"} =>
    /\ \A i \in DOMAIN row.progress :
         OwnOrBelow(row.progress[i].path, row.entry.path)
    /\ (/\ row.stage = "classified"
        /\ row.status \in {"local", "remote"}
        /\ \A i \in DOMAIN progresses :
             ~OwnOrBelow(progresses[i].path, row.entry.path))
         => HasButton(row)

\* C37: once no fetch is in flight, the page shows the node and the
\* children fetched for its current path (nothing, where the daemon gave
\* nothing or the fetch failed), whatever the order of the answers.
C37_ListingIsOfCurrentPath ==
  (Shown /\ page.calls = <<>>) =>
    \/ page.node = page.path /\ page.children = ChildrenOf(page.path)
    \/ page.node \in {EmptyNode, NullNode} /\ page.children = <<>>

(***************************************************************************)
(* computeProgressPercent over lists of records: each progress is 'done',  *)
(* a named state, or a count of units done out of a total.                 *)
(***************************************************************************)
MaxRecords == 2     \* records handed to a row
MaxUnits == 2       \* units a record counts

PercentValues ==
  {Done, [name |-> "compute"]} \cup
  {[progress |-> c] : c \in [progress : 0..MaxUnits, total : 0..MaxUnits]}

PercentInputs ==
  UNION {[1..n -> [path : {"/a/foo"}, progress : PercentValues]] : n \in 0..MaxRecords}

PercentInit ==
  /\ StoreInit /\ page = NoPage /\ daemon = {}
  /\ \E e \in ListingEntries, p \in PercentInputs : row = Mounted(e, p)

SpecPercent == PercentInit /\ [][Classify]_vars

\* The records that count units.
CountedIn(p) == {i \in DOMAIN p : "progress" \in DOMAIN p[i].progress}

\* The units of the records that count, added up record by record.
RECURSIVE UnitsUpTo(_, _, _)
UnitsUpTo(p, field, n) ==
  IF n = 0 THEN 0
  ELSE UnitsUpTo(p, field, n - 1)
       + (IF n \in CountedIn(p) THEN p[n].progress.progress[field] ELSE 0)

\* C38: the result is null exactly for the empty list; for a list with
\* records it is 'spin' exactly when the counted totals add up to 0;
\* otherwise it is 100 * done / total over the counted records, between 0
\* and 100 when no record has more units done than its total.
C38_PercentOfCountedUnits ==
  row.stage = "classified" =>
    LET p == row.progress
        r == row.progressPercent
        done == UnitsUpTo(p, "progress", Len(p))
        total == UnitsUpTo(p, "total", Len(p))
    IN /\ ("null" \in DOMAIN r) <=> (p = <<>>)
       /\ (p # <<>>) => (("spin" \in DOMAIN r) <=> (total = 0))
       /\ (p # <<>> /\ total # 0) =>
            /\ DOMAIN r = {"percent"}
            /\ r.percent.den > 0
            /\ r.percent.num * total = 100 * done * r.percent.den
            /\ (\A i \in CountedIn(p) :
                  p[i].progress.progress.progress <= p[i].progress.progress.total)
                 => (0 <= r.percent.num /\ r.percent.num <= 100 * r.percent.den)

C38_Witness ==
  /\ row.stage = "classified"
  /\ row.progress = <<[path |-> "/a/foo", progress |-> Done],
                      [path |-> "/a/foo", progress |-> [progress |-> [progress |-> 1, total |-> 2]]]>>
  /\ row.progressPercent = [percent |-> [num |-> 50, den |-> 1]]

====
